---- MODULE Spec2Model ----
(***************************************************************************)
(* A model of bvalosek/http-transport: the HttpTransport facade over the   *)
(* httpinvoke capability (every version of it the source holds) and the    *)
(* JsonpTransport facade over jsonp-client.                                *)
(*                                                                         *)
(* JavaScript strings are TLA+ strings (Len, \o and SubSeq act on them).   *)
(* A JavaScript value is a record [t |-> type tag, v |-> payload]; the     *)
(* payload of a string or number is its text, of an object the sequence of *)
(* its own enumerable entries in insertion order.                          *)
(***************************************************************************)
EXTENDS Integers, Sequences, FiniteSets, Bags, TLC

\* ------------------------------------------------------------------ bounds
\* the number of verb calls issued on the transport instance
MaxCalls == 2
\* the number of milliseconds Date.now() may advance
MaxClock == 1

\* ------------------------------------------------------- JavaScript values
Undefined == [t |-> "undefined", v |-> ""]
Null == [t |-> "null", v |-> ""]
Str(s) == [t |-> "string", v |-> s]
Num(s) == [t |-> "number", v |-> s]
Bool(s) == [t |-> "boolean", v |-> s]
Arr(xs) == [t |-> "array", v |-> xs]
Obj(es) == [t |-> "object", v |-> es]
Entry(k, x) == [k |-> k, x |-> x]

\* typeof x
TypeOf(x) ==
  CASE x.t = "undefined" -> "undefined"
    [] x.t = "string" -> "string"
    [] x.t = "number" -> "number"
    [] x.t = "boolean" -> "boolean"
    [] OTHER -> "object"

\* ToBoolean(x), as `x || y` and `!x` use it
Truthy(x) ==
  CASE x.t \in {"undefined", "null"} -> FALSE
    [] x.t = "string" -> x.v # ""
    [] x.t = "number" -> x.v # "0"
    [] x.t = "boolean" -> x.v = "true"
    [] OTHER -> TRUE

\* x || y
OrElse(x, y) == IF Truthy(x) THEN x ELSE y

\* obj[key]: the value of the own property key, or undefined
Get(obj, key) ==
  IF \E i \in 1..Len(obj.v) : obj.v[i].k = key
  THEN obj.v[CHOOSE i \in 1..Len(obj.v) : obj.v[i].k = key].x
  ELSE Undefined

\* obj[key] = x: replaces the property in place, or appends it
Put(obj, key, x) ==
  IF \E i \in 1..Len(obj.v) : obj.v[i].k = key
  THEN Obj([i \in 1..Len(obj.v) |->
              IF obj.v[i].k = key THEN Entry(key, x) ELSE obj.v[i]])
  ELSE Obj(Append(obj.v, Entry(key, x)))

RECURSIVE StringOf(_)
RECURSIVE JoinValues(_)
\* String(x)
StringOf(x) ==
  CASE x.t = "undefined" -> "undefined"
    [] x.t = "null" -> "null"
    [] x.t = "object" -> "[object Object]"
    [] x.t = "array" -> JoinValues(x.v)
    [] OTHER -> x.v

\* Array.prototype.join(",") as String(array) applies it
JoinValues(xs) ==
  IF Len(xs) = 0 THEN ""
  ELSE (IF xs[1].t \in {"undefined", "null"} THEN "" ELSE StringOf(xs[1]))
       \o (IF Len(xs) = 1 THEN "" ELSE "," \o JoinValues(Tail(xs)))

\* --------------------------------------------------------------- strings
CharAt(s, i) == SubSeq(s, i, i)

\* the 0-based index of the first occurrence of needle in s at or after
\* the 1-based position i, or -1
IndexFrom(s, needle, i) ==
  LET hits == {j \in i..(Len(s) - Len(needle) + 1) :
                 SubSeq(s, j, j + Len(needle) - 1) = needle}
  IN IF hits = {} THEN -1
     ELSE (CHOOSE j \in hits : \A k \in hits : j <= k) - 1

\* s.indexOf(needle)
IndexOf(s, needle) == IndexFrom(s, needle, 1)

Digits == <<"0", "1", "2", "3", "4", "5", "6", "7", "8", "9">>

RECURSIVE NatToString(_)
\* String(n) of a non-negative integer
NatToString(n) ==
  IF n < 10 THEN Digits[n + 1]
  ELSE NatToString(n \div 10) \o Digits[(n % 10) + 1]

\* the characters encodeURIComponent leaves alone
Unreserved ==
  { "a", "b", "c", "d", "e", "f", "g", "h", "i", "j", "k", "l", "m",
    "n", "o", "p", "q", "r", "s", "t", "u", "v", "w", "x", "y", "z",
    "A", "B", "C", "D", "E", "F", "G", "H", "I", "J", "K", "L", "M",
    "N", "O", "P", "Q", "R", "S", "T", "U", "V", "W", "X", "Y", "Z",
    "0", "1", "2", "3", "4", "5", "6", "7", "8", "9",
    "-", "_", ".", "!", "~", "*", "'", "(", ")" }

\* the escape of one reserved ASCII character
PercentCode(c) ==
  CASE c = " " -> "%20"
    [] c = "#" -> "%23"
    [] c = "$" -> "%24"
    [] c = "%" -> "%25"
    [] c = "&" -> "%26"
    [] c = "+" -> "%2B"
    [] c = "," -> "%2C"
    [] c = "/" -> "%2F"
    [] c = ":" -> "%3A"
    [] c = ";" -> "%3B"
    [] c = "=" -> "%3D"
    [] c = "?" -> "%3F"
    [] c = "@" -> "%40"
    [] c = "[" -> "%5B"
    [] c = "]" -> "%5D"
    [] c = "{" -> "%7B"
    [] c = "}" -> "%7D"

RECURSIVE EncodeFrom(_, _)
EncodeFrom(s, i) ==
  IF i > Len(s) THEN ""
  ELSE (IF CharAt(s, i) \in Unreserved THEN CharAt(s, i)
        ELSE PercentCode(CharAt(s, i))) \o EncodeFrom(s, i + 1)

\* encodeURIComponent(s)
encodeURIComponent(s) == EncodeFrom(s, 1)

RECURSIVE Join(_, _)
\* parts.join(sep)
Join(parts, sep) ==
  IF Len(parts) = 0 THEN ""
  ELSE IF Len(parts) = 1 THEN parts[1]
  ELSE parts[1] \o sep \o Join(Tail(parts), sep)

\* ------------------------------------------------------------ JSON.parse
\* The grammar parsed: optional blanks, non-negative integers, strings
\* without escapes, true, false, null, arrays and objects.
ParseFail == [ok |-> FALSE, val |-> Undefined, next |-> 0]
ParseOk(val, next) == [ok |-> TRUE, val |-> val, next |-> next]

RECURSIVE SkipBlanks(_, _)
SkipBlanks(s, i) ==
  IF i <= Len(s) /\ CharAt(s, i) = " " THEN SkipBlanks(s, i + 1) ELSE i

RECURSIVE DigitsEnd(_, _)
\* the position after the run of digits that starts at i
DigitsEnd(s, i) ==
  IF i <= Len(s) /\ IndexOf("0123456789", CharAt(s, i)) >= 0
  THEN DigitsEnd(s, i + 1) ELSE i

IsLiteralAt(s, i, lit) ==
  i + Len(lit) - 1 <= Len(s) /\ SubSeq(s, i, i + Len(lit) - 1) = lit

\* a string literal whose opening quote is at i
ParseString(s, i) ==
  LET close == IndexFrom(s, "\"", i + 1)
  IN IF close < 0 THEN ParseFail
     ELSE ParseOk(Str(SubSeq(s, i + 1, close)), close + 2)

RECURSIVE ParseValue(_, _)
RECURSIVE ParseElements(_, _, _)
RECURSIVE ParseMembers(_, _, _)

\* the JSON value that starts at or after position i
ParseValue(s, i0) ==
  LET i == SkipBlanks(s, i0)
  IN IF i > Len(s) THEN ParseFail
     ELSE LET c == CharAt(s, i)
          IN CASE c = "\"" -> ParseString(s, i)
               [] c = "[" ->
                    LET j == SkipBlanks(s, i + 1)
                    IN IF j <= Len(s) /\ CharAt(s, j) = "]"
                       THEN ParseOk(Arr(<<>>), j + 1)
                       ELSE ParseElements(s, j, <<>>)
               [] c = "{" ->
                    LET j == SkipBlanks(s, i + 1)
                    IN IF j <= Len(s) /\ CharAt(s, j) = "}"
                       THEN ParseOk(Obj(<<>>), j + 1)
                       ELSE ParseMembers(s, j, <<>>)
               [] IsLiteralAt(s, i, "true") -> ParseOk(Bool("true"), i + 4)
               [] IsLiteralAt(s, i, "false") -> ParseOk(Bool("false"), i + 5)
               [] IsLiteralAt(s, i, "null") -> ParseOk(Null, i + 4)
               [] DigitsEnd(s, i) > i /\ (CharAt(s, i) # "0" \/ DigitsEnd(s, i) = i + 1) ->
                    ParseOk(Num(SubSeq(s, i, DigitsEnd(s, i) - 1)), DigitsEnd(s, i))
               [] OTHER -> ParseFail

\* the elements of an array, the first starting at i, up to the closing ]
ParseElements(s, i, acc) ==
  LET e == ParseValue(s, i)
  IN IF ~e.ok THEN ParseFail
     ELSE LET j == SkipBlanks(s, e.next)
          IN IF j > Len(s) THEN ParseFail
             ELSE IF CharAt(s, j) = "," THEN ParseElements(s, j + 1, Append(acc, e.val))
             ELSE IF CharAt(s, j) = "]" THEN ParseOk(Arr(Append(acc, e.val)), j + 1)
             ELSE ParseFail

\* the members of an object, the first key starting at i, up to the closing }
ParseMembers(s, i0, acc) ==
  LET i == SkipBlanks(s, i0)
  IN IF i > Len(s) \/ CharAt(s, i) # "\"" THEN ParseFail
     ELSE LET k == ParseString(s, i)
          IN IF ~k.ok THEN ParseFail
             ELSE LET c == SkipBlanks(s, k.next)
                  IN IF c > Len(s) \/ CharAt(s, c) # ":" THEN ParseFail
                     ELSE LET e == ParseValue(s, c + 1)
                          IN IF ~e.ok THEN ParseFail
                             ELSE LET j == SkipBlanks(s, e.next)
                                      more == Append(acc, Entry(k.val.v, e.val))
                                  IN IF j > Len(s) THEN ParseFail
                                     ELSE IF CharAt(s, j) = "," THEN ParseMembers(s, j + 1, more)
                                     ELSE IF CharAt(s, j) = "}" THEN ParseOk(Obj(more), j + 1)
                                     ELSE ParseFail

\* JSON.parse(x): [ok, val]; ok = FALSE is the SyntaxError it throws.
\* The argument is converted to a string first, as JSON.parse does.
JSONparse(x) ==
  LET s == StringOf(x)
      r == ParseValue(s, 1)
  IN IF r.ok /\ SkipBlanks(s, r.next) = Len(s) + 1
     THEN [ok |-> TRUE, val |-> r.val]
     ELSE [ok |-> FALSE, val |-> Undefined]

\* ------------------------------------------------- node's path and url
\* s.split(sep) for a one-character separator: the parts between the
\* occurrences of sep, in order
Split(s, sep) ==
  LET at == {j \in 1..Len(s) : CharAt(s, j) = sep}
      nth(k) == IF k = 0 THEN 0
                ELSE IF k > Cardinality(at) THEN Len(s) + 1
                ELSE CHOOSE j \in at : Cardinality({x \in at : x < j}) = k - 1
  IN [k \in 1..(Cardinality(at) + 1) |-> SubSeq(s, nth(k - 1) + 1, nth(k) - 1)]

RECURSIVE NonEmpty(_)
\* parts.filter(function(p) { return !!p; })
NonEmpty(parts) ==
  IF Len(parts) = 0 THEN <<>>
  ELSE (IF parts[1] = "" THEN <<>> ELSE <<parts[1]>>) \o NonEmpty(Tail(parts))

RECURSIVE NormalizeFrom(_, _, _, _)
\* normalizeArray's scan from the last part to the first: "." is dropped,
\* ".." drops itself and the next part kept to its left
NormalizeFrom(parts, i, up, kept) ==
  IF i = 0 THEN [kept |-> kept, up |-> up]
  ELSE IF parts[i] = "." THEN NormalizeFrom(parts, i - 1, up, kept)
  ELSE IF parts[i] = ".." THEN NormalizeFrom(parts, i - 1, up + 1, kept)
  ELSE IF up > 0 THEN NormalizeFrom(parts, i - 1, up - 1, kept)
  ELSE NormalizeFrom(parts, i - 1, up, <<parts[i]>> \o kept)

normalizeArray(parts, allowAboveRoot) ==
  LET r == NormalizeFrom(parts, Len(parts), 0, <<>>)
  IN IF allowAboveRoot THEN [i \in 1..r.up |-> ".."] \o r.kept ELSE r.kept

\* path.normalize(p)
pathNormalize(p) ==
  LET isAbsolute == Len(p) > 0 /\ CharAt(p, 1) = "/"
      trailingSlash == Len(p) > 0 /\ CharAt(p, Len(p)) = "/"
      joined == Join(normalizeArray(NonEmpty(Split(p, "/")), ~isAbsolute), "/")
      dotted == IF joined = "" /\ ~isAbsolute THEN "." ELSE joined
      slashed == IF dotted # "" /\ trailingSlash THEN dotted \o "/" ELSE dotted
  IN (IF isAbsolute THEN "/" ELSE "") \o slashed

\* path.join(a, b): [threw, out]; a non-string argument throws a TypeError
pathJoin(a, b) ==
  IF TypeOf(a) # "string" \/ TypeOf(b) # "string"
  THEN [threw |-> "TypeError", out |-> ""]
  ELSE [threw |-> "", out |-> pathNormalize(Join(NonEmpty(<<a.v, b.v>>), "/"))]

RECURSIVE QueryPairs(_)
\* one "key=value" per own property, each side percent-encoded
QueryPairs(es) ==
  IF Len(es) = 0 THEN <<>>
  ELSE <<encodeURIComponent(es[1].k) \o "=" \o encodeURIComponent(StringOf(es[1].x))>>
       \o QueryPairs(Tail(es))

\* urlUtil.format({ query: params }): "?" and the stringified query, or
\* nothing for an object without properties
urlFormatQuery(params) ==
  IF Len(params.v) = 0 THEN "" ELSE "?" \o Join(QueryPairs(params.v), "&")

\* ------------------------------------------------------ private helpers
\* serialize(data): [threw, out]. Object.keys(undefined) and
\* Object.keys(null) throw a TypeError.
serialize(data) ==
  IF data.t \in {"undefined", "null"}
  THEN [threw |-> "TypeError", out |-> ""]
  ELSE [threw |-> "", out |-> Join(QueryPairs(data.v), "&")]

\* a response descriptor of the capability
Resp(statusCode, headers, body) ==
  [statusCode |-> statusCode, headers |-> headers, body |-> body]

NoResp == Resp(0, Undefined, Undefined)

\* deserializeNoGuard with a parse failure swallowed
deserializeLenient(resp) ==
  IF ~Truthy(resp.headers) THEN [threw |-> "", resp |-> resp]
  ELSE LET type == Get(resp.headers, "content-type")
       IN IF type.t \in {"undefined", "null"}
          THEN [threw |-> "TypeError", resp |-> NoResp]
          ELSE IF IndexOf(type.v, "application/json") # -1 /\ JSONparse(resp.body).ok
          THEN [threw |-> "", resp |-> [resp EXCEPT !.body = JSONparse(resp.body).val]]
          ELSE [threw |-> "", resp |-> resp]

\* deserialize(resp) without the guard on an absent content-type:
\* [threw, resp]. undefined.indexOf(...) throws a TypeError.
deserializeNoGuard(resp) ==
  IF ~Truthy(resp.headers) THEN [threw |-> "", resp |-> resp]
  ELSE LET type == Get(resp.headers, "content-type")
       IN IF type.t \in {"undefined", "null"}
          THEN [threw |-> "TypeError", resp |-> NoResp]
          ELSE IF IndexOf(type.v, "application/json") # -1
          THEN LET parsed == JSONparse(resp.body)
               IN IF parsed.ok
                  THEN [threw |-> "", resp |-> [resp EXCEPT !.body = parsed.val]]
                  ELSE [threw |-> "SyntaxError", resp |-> NoResp]
          ELSE [threw |-> "", resp |-> resp]

\* deserialize(resp): [threw, resp]
deserialize(resp) ==
  IF ~Truthy(resp.headers) THEN [threw |-> "", resp |-> resp]
  ELSE LET type == Get(resp.headers, "content-type")
       IN IF ~Truthy(type) THEN [threw |-> "", resp |-> resp]
          ELSE deserializeNoGuard(resp)

\* what httpInvoke(...) returns: a thenable that is also the abort function
HttpInvokeThenable == [kind |-> "httpinvoke", abort |-> TRUE]

\* thenable.then(f): the child thenable, which is no abort function
ThenOf(thenable) == [kind |-> thenable.kind, abort |-> FALSE]

\* wrapResponse returning the capability's thenable itself
wrapResponseForward(thenable) == thenable

\* wrapResponse(thenable): Promise.resolve(thenable), a new promise that
\* follows the thenable and has none of its other properties
wrapResponse(thenable) == [kind |-> "Promise", abort |-> FALSE]

NoHandle == [kind |-> "none", abort |-> FALSE]

\* a request handed to the capability
Request(url, method, input, headers) ==
  [url |-> url, method |-> method, input |-> input, headers |-> headers]

FormHeaders ==
  Obj(<<Entry("Content-Type", Str("application/x-www-form-urlencoded")),
        Entry("Cache-Control", Str("no-cache"))>>)

\* the synchronous part of a verb call: it throws, or it hands one request
\* to the capability, chains `then` on the result and returns a handle
Throws(err) ==
  [threw |-> err, reqs |-> <<>>, then |-> "none", returned |-> NoHandle]
Invokes(req, then, returned) ==
  [threw |-> "", reqs |-> <<req>>, then |-> then, returned |-> returned]

\* ---------------------------------------------------------- constructors
\* The source holds three behaviours of HttpTransport:
\*   "HttpA"  unnamed/part_000 lines 1-188
\*   "HttpB"  unnamed/part_000 lines 190-399 and unnamed/part_001 lines 1-153
\*            (the same code: deserialize without the guard)
\*   "HttpC"  unnamed/part_001 lines 156-339 (no urlRoot, query in the URL)
\* and "Jsonp", lib/JsonpTransport.js.
Impls == {"HttpA", "HttpB", "HttpC", "Jsonp"}
HttpImpls == {"HttpA", "HttpB", "HttpC"}

NoInstance == [state |-> "none", fields |-> Obj(<<>>)]
Built(fields) == [state |-> "built", fields |-> fields]

\* new HttpTransport(urlRoot): [threw, instance]
HttpTransport(urlRoot) ==
  IF urlRoot.t # "undefined" /\ TypeOf(urlRoot) # "string"
  THEN [threw |-> "TypeError", instance |-> NoInstance]
  ELSE [threw |-> "",
        instance |-> Built(Obj(<<Entry("_urlRoot", OrElse(urlRoot, Str("")))>>))]

\* new HttpTransport(...) of the version that takes no argument
HttpTransportNoRoot(urlRoot) ==
  [threw |-> "", instance |-> Built(Obj(<<>>))]

\* new JsonpTransport(urlRoot)
JsonpTransport(urlRoot) ==
  [threw |-> "",
   instance |-> Built(Obj(<<Entry("_urlRoot", OrElse(urlRoot, Str("")))>>))]

New(impl, urlRoot) ==
  CASE impl \in {"HttpA", "HttpB"} -> HttpTransport(urlRoot)
    [] impl = "HttpC" -> HttpTransportNoRoot(urlRoot)
    [] impl = "Jsonp" -> JsonpTransport(urlRoot)

\* this._makeUrl(url); no verb method calls it
makeUrl(self, url) == StringOf(Get(self.fields, "_urlRoot")) \o url

\* ---------------------------------------------------------- verb methods
\* HttpTransport.prototype.get; `then` names the deserialize chained on
GetInput(url, params, then) ==
  IF TypeOf(url) # "string" THEN Throws("TypeError")
  ELSE LET input == serialize(OrElse(params, Obj(<<>>)))
       IN IF input.threw # "" THEN Throws(input.threw)
          ELSE Invokes(Request(url.v, "GET", Str(input.out), Undefined), then,
                       wrapResponse(ThenOf(HttpInvokeThenable)))

\* HttpTransport.prototype.get of the version that puts the query in the URL
GetQuery(url, params) ==
  IF TypeOf(url) # "string" THEN Throws("TypeError")
  ELSE LET fullUrl == url.v \o urlFormatQuery(OrElse(params, Obj(<<>>)))
       IN Invokes(Request(fullUrl, "GET", Undefined, Undefined), "deserialize",
                  wrapResponse(ThenOf(HttpInvokeThenable)))

\* Write with deserialize chained on, as get has it
WriteDeserialized(verb, url, data) ==
  IF TypeOf(url) # "string" THEN Throws("TypeError")
  ELSE LET input == serialize(data)
       IN IF input.threw # "" THEN Throws(input.threw)
          ELSE Invokes(Request(url.v, verb, Str(input.out), FormHeaders), "deserialize",
                       wrapResponse(HttpInvokeThenable))

\* HttpTransport.prototype.post and .put
Write(verb, url, data) ==
  IF TypeOf(url) # "string" THEN Throws("TypeError")
  ELSE LET input == serialize(data)
       IN IF input.threw # "" THEN Throws(input.threw)
          ELSE Invokes(Request(url.v, verb, Str(input.out), FormHeaders), "none",
                       wrapResponse(HttpInvokeThenable))

\* Delete without the check of url
DeleteUnchecked(url, params) ==
  LET input == serialize(OrElse(params, Obj(<<>>)))
  IN Invokes(Request(StringOf(url), "DELETE", Str(input.out), Undefined), "none",
             wrapResponse(HttpInvokeThenable))

\* HttpTransport.prototype.delete (.del)
Delete(url, params) ==
  IF TypeOf(url) # "string" THEN Throws("TypeError")
  ELSE LET input == serialize(OrElse(params, Obj(<<>>)))
       IN IF input.threw # "" THEN Throws(input.threw)
          ELSE Invokes(Request(url.v, "DELETE", Str(input.out), Undefined), "none",
                       wrapResponse(HttpInvokeThenable))

\* JsonpTransport.prototype.get at time now = Date.now()
JsonpGet(url, params, now) ==
  LET withCallback == Put(OrElse(params, Obj(<<>>)), "callback",
                          Str("JsonpTransport" \o NatToString(now)))
      joined == pathJoin(url, Str(urlFormatQuery(withCallback)))
  IN IF joined.threw # "" THEN Throws(joined.threw)
     ELSE Invokes(Request(joined.out, "GET", Undefined, Undefined), "jsonp",
                  [kind |-> "Promise", abort |-> FALSE])

\* an empty method body, as AbstractTransport.prototype.put has
JsonpEmptyBody == [Throws("") EXCEPT !.then = "jsonp"]

\* JsonpTransport.prototype.put, .post and .delete
JsonpNotImplemented == Throws("Error")

\* the four verbs; `del` is another name of delete (the only name of it
\* in the version of unnamed/part_000 line 347 and unnamed/part_001 line 102)
Methods == {"get", "post", "put", "delete"}

\* transport[method](url, payload)
Call(impl, method, url, payload, now) ==
  IF impl = "Jsonp"
  THEN (IF method = "get" THEN JsonpGet(url, payload, now) ELSE JsonpNotImplemented)
  ELSE CASE method = "get" ->
              (IF impl = "HttpC" THEN GetQuery(url, payload)
               ELSE GetInput(url, payload,
                             IF impl = "HttpB" THEN "deserializeNoGuard" ELSE "deserialize"))
         [] method = "post" -> Write("POST", url, payload)
         [] method = "put" -> Write("PUT", url, payload)
         [] method = "delete" -> Delete(url, payload)

\* the caller's payload object after transport[method](url, payload):
\* JsonpTransport.prototype.get assigns params.callback on the object it was
\* given (a fresh {} when none was given); no other method writes to it
ParamsAfterGet(impl, method, payload, now) ==
  IF impl = "Jsonp" /\ method = "get" /\ Truthy(payload)
  THEN Put(payload, "callback", Str("JsonpTransport" \o NatToString(now)))
  ELSE payload

\* ThisAfterCall with the url of the call kept on the instance
ThisRememberingUrl(self, method, url, payload) ==
  Put(self.fields, "_lastUrl", url)

\* the fields of `this` after transport[method](url, payload): no verb
\* method of any version assigns to a property of this (_makeUrl and del
\* only read it)
ThisAfterCall(self, method, url, payload) == self.fields

\* the callback chained on the capability's result
Then(then, resp) ==
  CASE then = "deserialize" -> deserialize(resp)
    [] then = "deserializeNoGuard" -> deserializeNoGuard(resp)
    [] OTHER -> [threw |-> "", resp |-> resp]

\* ------------------------------------------------------------- the inputs
UrlRoot == "http://some.rest.services/api/v2"
CtorArgs == {Undefined, Str(UrlRoot), Num("123"), Null, Obj(<<>>)}

GoodUrl == Str("/users")
BadUrls == {Undefined, Num("123")}
Params == Obj(<<Entry("group", Str("admins")), Entry("content", Str("Hello, world!"))>>)
Payloads == {Undefined, Params}
\* the payload does not matter to a call whose url is refused
CallArgs == ({GoodUrl} \X Payloads) \cup (BadUrls \X {Undefined})

JsonHeaders == Obj(<<Entry("content-type", Str("application/json; charset=utf-8"))>>)
TextHeaders == Obj(<<Entry("content-type", Str("text/plain"))>>)
GoodBody == Str("[{\"id\":1}]")
BadBody == Str("{\"id\":")
Responses ==
  { Resp(200, JsonHeaders, GoodBody), Resp(200, JsonHeaders, BadBody),
    Resp(200, TextHeaders, GoodBody),
    Resp(200, Obj(<<>>), GoodBody),    \* no content-type header
    Resp(200, Undefined, GoodBody) }   \* no headers
\* what a JSONP script hands to the callback
JsonpPayloads == {Arr(<<Obj(<<Entry("id", Num("1"))>>)>>)}

\* ---------------------------------------------------------------- state
VARIABLES
  impl,      \* the module the transport is constructed from
  instance,  \* the transport instance: [state, fields]
  pending,   \* the bag of calls whose request is in flight
  last,      \* the operation that finished most recently, as the caller saw it
  clock      \* Date.now()

vars == <<impl, instance, pending, last, clock>>

\* a record of one operation of the caller
Op(op, method, url, payload, sync) ==
  [op |-> op, method |-> method, url |-> url, payload |-> payload,
   reqs |-> sync.reqs, then |-> sync.then, returned |-> sync.returned,
   status |-> IF sync.threw # "" THEN "threw" ELSE "pending",
   error |-> sync.threw, outcome |-> "", resp |-> NoResp, value |-> NoResp,
   abort |-> ""]

NoOp == [Op("none", "", Undefined, Undefined, Throws("")) EXCEPT !.status = "none"]

Init ==
  /\ impl \in Impls
  /\ instance = NoInstance
  /\ pending = EmptyBag
  /\ last = NoOp
  /\ clock = 0

\* new Transport(arg)
Construct(arg) ==
  /\ instance.state = "none"
  /\ LET made == New(impl, arg)
     IN /\ instance' = made.instance
        /\ last' = [Op("new", "new", arg, Undefined, Throws(made.threw))
                      EXCEPT !.status = IF made.threw # "" THEN "threw" ELSE "returned"]
  /\ UNCHANGED <<impl, pending, clock>>

\* transport[method](url, payload)
VerbCall(method, url, payload) ==
  /\ instance.state = "built"
  /\ LET sync == Call(impl, method, url, payload, clock)
         rec == Op("call", method, url, payload, sync)
     IN IF sync.threw # ""
        THEN /\ last' = rec
             /\ UNCHANGED pending
        ELSE /\ BagCardinality(pending) < MaxCalls
             /\ pending' = pending (+) SetToBag({rec})
             /\ UNCHANGED last
  /\ instance' = [instance EXCEPT !.fields = ThisAfterCall(instance, method, url, payload)]
  /\ UNCHANGED <<impl, clock>>

\* the promise of call r settles after the capability's result went through
\* the chained callback
Settled(r, resp, out) ==
  IF out.threw # ""
  THEN [r EXCEPT !.op = "settle", !.status = "rejected", !.error = out.threw,
                 !.outcome = "response", !.resp = resp]
  ELSE [r EXCEPT !.op = "settle", !.status = "resolved", !.outcome = "response",
                 !.resp = resp, !.value = out.resp]

\* httpinvoke yields a response for the request of call r
HttpRespond(r, resp) ==
  /\ r.then # "jsonp"
  /\ pending' = pending (-) SetToBag({r})
  /\ last' = Settled(r, resp, Then(r.then, resp))
  /\ UNCHANGED <<impl, instance, clock>>

\* the capability fails the request of call r: the chained callback is skipped
Fail(r) ==
  /\ pending' = pending (-) SetToBag({r})
  /\ last' = [r EXCEPT !.op = "settle", !.status = "rejected",
                       !.error = "TransportError", !.outcome = "failure"]
  /\ UNCHANGED <<impl, instance, clock>>

\* jsonp-client hands the loaded payload to the callback of call r
JsonpLoaded(r, data) ==
  /\ r.then = "jsonp"
  /\ pending' = pending (-) SetToBag({r})
  /\ last' = [r EXCEPT !.op = "settle", !.status = "resolved", !.outcome = "response",
                       !.value = Resp(200, Undefined, data)]
  /\ UNCHANGED <<impl, instance, clock>>

\* The caller invokes the value a call returned as an abort handle. A handle
\* that is the capability's abort function aborts a request in flight and
\* does nothing after it finished; a value that is no function throws a
\* TypeError at the caller. `abort` records what the attempt did.
AbortInFlight(r) ==
  /\ IF r.returned.abort
     THEN /\ pending' = pending (-) SetToBag({r})
          /\ last' = [r EXCEPT !.op = "abort", !.status = "rejected",
                               !.error = "AbortError", !.outcome = "aborted",
                               !.abort = "aborted"]
     ELSE /\ UNCHANGED pending
          /\ last' = [r EXCEPT !.op = "abort", !.abort = "TypeError"]
  /\ UNCHANGED <<impl, instance, clock>>

AbortSettled ==
  /\ last.op = "settle"
  /\ last' = [last EXCEPT !.op = "abort",
                          !.abort = IF last.returned.abort THEN "no-op" ELSE "TypeError"]
  /\ UNCHANGED <<impl, instance, pending, clock>>

\* a millisecond passes; only JsonpTransport reads the clock
Tick ==
  /\ impl = "Jsonp"
  /\ clock < MaxClock
  /\ clock' = clock + 1
  /\ UNCHANGED <<impl, instance, pending, last>>

Next ==
  \/ \E arg \in CtorArgs : Construct(arg)
  \/ \E m \in Methods, a \in CallArgs : VerbCall(m, a[1], a[2])
  \/ \E r \in BagToSet(pending), resp \in Responses : HttpRespond(r, resp)
  \/ \E r \in BagToSet(pending) : Fail(r)
  \/ \E r \in BagToSet(pending), data \in JsonpPayloads : JsonpLoaded(r, data)
  \/ \E r \in BagToSet(pending) : AbortInFlight(r)
  \/ AbortSettled
  \/ Tick

Spec == Init /\ [][Next]_vars

\* ------------------------------------------- deserialize applied by hand
\* deserialize is a private function; this specification applies it to a
\* descriptor and then to its own result. `last` holds the application made
\* most recently: resp the descriptor handed in, value the descriptor
\* returned, error what was thrown.
JsonOnlyHeaders == Obj(<<Entry("content-type", Str("application/json"))>>)
DescriptorHeaders == {JsonHeaders, JsonOnlyHeaders, TextHeaders, Obj(<<>>), Undefined}
DescriptorBodies ==
  { GoodBody, BadBody, Str("{\"id\":1}"), Str("[]"), Str("[1]"), Str("[1,2]"),
    Str("[[7]]"), Str("null"), Str("1"), Str("true"), Str("\"a\""), Str("") }
Descriptors == {Resp(200, h, b) : h \in DescriptorHeaders, b \in DescriptorBodies}

\* the deserialize of the version impl
DeserializeOf(version) ==
  IF version = "HttpB" THEN "deserializeNoGuard" ELSE "deserialize"

Applied(op, resp, out) ==
  [NoOp EXCEPT !.op = op, !.then = DeserializeOf(impl), !.resp = resp,
               !.value = out.resp, !.error = out.threw,
               !.status = IF out.threw # "" THEN "threw" ELSE "returned"]

InitDeserialize ==
  /\ impl \in HttpImpls
  /\ instance = NoInstance
  /\ pending = EmptyBag
  /\ clock = 0
  /\ \E d \in Descriptors : last = Applied("descriptor", NoResp, [threw |-> "", resp |-> d])

\* deserialize(resp) on a descriptor of the capability
Deserialize ==
  /\ last.op = "descriptor"
  /\ last' = Applied("deserialize", last.value, Then(DeserializeOf(impl), last.value))
  /\ UNCHANGED <<impl, instance, pending, clock>>

\* deserialize(resp) on the descriptor deserialize returned
DeserializeAgain ==
  /\ last.op = "deserialize" /\ last.status = "returned"
  /\ last' = Applied("deserialize again", last.value, Then(DeserializeOf(impl), last.value))
  /\ UNCHANGED <<impl, instance, pending, clock>>

NextDeserialize == Deserialize \/ DeserializeAgain

SpecDeserialize == InitDeserialize /\ [][NextDeserialize]_vars

\* ================================================================ claims
IsCall(r) == r.op \in {"call", "settle", "abort"}
HasJsonType(resp) ==
  /\ resp.headers.t = "object"
  /\ Get(resp.headers, "content-type").t = "string"
  /\ IndexOf(Get(resp.headers, "content-type").v, "application/json") >= 0
PlainPromise == [kind |-> "Promise", abort |-> FALSE]
\* the verb calls the state holds: those in flight and the last one finished
CallsSeen == BagToSet(pending) \cup (IF IsCall(last) THEN {last} ELSE {})
\* the URL-root prefix of the instance, empty when it has none
Prefix ==
  IF Get(instance.fields, "_urlRoot").t = "undefined" THEN ""
  ELSE StringOf(Get(instance.fields, "_urlRoot"))

\* C1: a direct-HTTP get, post, put or delete whose url is not a string
\* (undefined included) throws a TypeError synchronously and hands no
\* request to httpInvoke: no such call is ever in flight, and the refused
\* call has no request.
C1_NonStringUrlThrows ==
  impl \in HttpImpls =>
    /\ \A r \in BagToSet(pending) : TypeOf(r.url) = "string"
    /\ (IsCall(last) /\ TypeOf(last.url) # "string") =>
         /\ last.op = "call"
         /\ last.status = "threw"
         /\ last.error = "TypeError"
         /\ last.reqs = <<>>
         /\ last.returned = NoHandle

C1_Witness ==
  /\ impl \in HttpImpls
  /\ last.op = "call" /\ last.method = "delete" /\ last.url = Undefined
  /\ last.status = "threw" /\ last.error = "TypeError"

\* C2 (as claimed): new HttpTransport(urlRoot) throws a TypeError and
\* yields no instance when urlRoot is neither undefined nor a string, and
\* succeeds when it is a string or omitted.
C2_ConstructorChecksUrlRoot ==
  (impl \in HttpImpls /\ last.op = "new") =>
    IF last.url.t = "undefined" \/ TypeOf(last.url) = "string"
    THEN last.status = "returned" /\ instance.state = "built"
    ELSE last.status = "threw" /\ last.error = "TypeError" /\ instance.state = "none"

\* C3: on a JsonpTransport every post, put or delete throws an Error
\* synchronously whatever its arguments, starts no JSONP load and returns
\* no promise.
C3_JsonpWritesThrow ==
  impl = "Jsonp" =>
    /\ \A r \in BagToSet(pending) : r.method = "get"
    /\ (IsCall(last) /\ last.method \in {"post", "put", "delete"}) =>
         /\ last.op = "call"
         /\ last.status = "threw"
         /\ last.error = "Error"
         /\ last.reqs = <<>>
         /\ last.returned = NoHandle

C3_Witness ==
  /\ impl = "Jsonp"
  /\ last.op = "call" /\ last.method = "post"
  /\ last.url = GoodUrl /\ last.payload = Params
  /\ last.status = "threw" /\ last.error = "Error"

\* C4 (as claimed): a direct-HTTP get that resolves has its body parsed
\* exactly when the content-type header contains "application/json"; with
\* another content-type, no content-type header or no headers the call
\* resolves with the capability's descriptor unchanged.
C4_ParsedIffJsonType ==
  (impl \in HttpImpls /\ last.op \in {"settle", "abort"} /\ last.method = "get"
     /\ last.outcome = "response") =>
    IF HasJsonType(last.resp)
    THEN last.status = "resolved" =>
           /\ JSONparse(last.resp.body).ok
           /\ last.value = [last.resp EXCEPT !.body = JSONparse(last.resp.body).val]
           /\ last.value.body # last.resp.body
    ELSE last.status = "resolved" /\ last.value = last.resp

\* C5 (as claimed): every request of a verb call with url u on a transport
\* with URL-root prefix P goes to exactly P + u.
C5_RequestsGoToPrefixPlusUrl ==
  \A r \in CallsSeen :
    \A i \in 1..Len(r.reqs) : r.reqs[i].url = Prefix \o r.url.v

\* C6 (as claimed): a direct-HTTP verb call with a string url and no payload
\* does not throw, hands the capability one request whose input is the
\* empty string, as the call with an empty mapping does, and returns a
\* promise.
C6_OmittedPayloadIsEmptyMapping ==
  impl \in HttpImpls =>
    \A r \in CallsSeen :
      (TypeOf(r.url) = "string" /\ r.payload = Undefined) =>
        /\ r.status # "threw"
        /\ Len(r.reqs) = 1
        /\ r.reqs[1].input = Str("")
        /\ r.reqs = Call(impl, r.method, r.url, Obj(<<>>), clock).reqs
        /\ r.returned.kind = "Promise"

\* C7 (as claimed): a direct-HTTP get(url, params) issues its GET on url
\* followed by a query string that holds key=value for every entry of
\* params.
C7_GetPutsParamsInQuery ==
  impl \in HttpImpls =>
    \A r \in CallsSeen :
      (r.method = "get" /\ r.status # "threw") =>
        LET params == OrElse(r.payload, Obj(<<>>))
            u == r.reqs[1].url
        IN /\ r.reqs[1].method = "GET"
           /\ Len(u) >= Len(r.url.v)
           /\ SubSeq(u, 1, Len(r.url.v)) = r.url.v
           /\ \A i \in 1..Len(params.v) :
                IndexFrom(u, QueryPairs(params.v)[i], Len(r.url.v) + 1) >= 0

\* C8 (as claimed): the value a direct-HTTP verb method returns carries the
\* capability's abort handle: invoked in flight it aborts the request,
\* invoked after the result settled it does nothing.
C8_ReturnedValueAborts ==
  impl \in HttpImpls =>
    /\ \A r \in BagToSet(pending) : r.returned.abort
    /\ last.op = "abort" => last.abort \in {"aborted", "no-op"}

\* C8 (amended): the value a direct-HTTP verb method returns is a promise
\* that does not carry the capability's abort handle. Invoking it throws a
\* TypeError at the caller and aborts nothing: a request in flight stays in
\* flight, and a settled result keeps its outcome.
C8_ReturnedValueIsPlainPromise ==
  impl \in HttpImpls =>
    /\ \A r \in BagToSet(pending) : r.returned = PlainPromise
    /\ last.op = "abort" =>
         /\ last.returned = PlainPromise
         /\ last.abort = "TypeError"
         /\ last.outcome # "aborted"
         /\ last.status = "pending" =>
              BagIn([last EXCEPT !.op = "call", !.abort = ""], pending)
         /\ last.status # "pending" =>
              LET issued == [last EXCEPT !.op = "call", !.abort = "", !.status = "pending",
                                         !.error = "", !.outcome = "", !.resp = NoResp,
                                         !.value = NoResp]
              IN IF last.outcome = "response"
                 THEN [last EXCEPT !.op = "settle", !.abort = ""]
                        = Settled(issued, last.resp, Then(last.then, last.resp))
                 ELSE /\ last.outcome = "failure"
                      /\ last.status = "rejected"
                      /\ last.error = "TransportError"

C8_Witness ==
  /\ impl \in HttpImpls
  /\ last.op = "abort" /\ last.method = "post" /\ last.status = "pending"
  /\ last.abort = "TypeError"
  /\ BagIn([last EXCEPT !.op = "call", !.abort = ""], pending)

\* C9: when the I/O path of a verb call fails (the capability fails, or a
\* direct-HTTP get receives a malformed body under a content-type that
\* contains "application/json"), the promise the call returned rejects with
\* that error: nothing was thrown at the caller, the promise does not
\* resolve, and the capability was invoked once.
IoFailure(r) ==
  \/ r.outcome = "failure"
  \/ /\ r.outcome = "response" /\ impl \in HttpImpls /\ r.method = "get"
     /\ HasJsonType(r.resp) /\ ~JSONparse(r.resp.body).ok

C9_IoFailureRejects ==
  (last.op \in {"settle", "abort"} /\ IoFailure(last)) =>
    /\ last.status = "rejected"
    /\ last.error = (IF last.outcome = "failure" THEN "TransportError" ELSE "SyntaxError")
    /\ last.value = NoResp
    /\ last.returned = PlainPromise
    /\ Len(last.reqs) = 1

C9_Witness ==
  /\ impl \in HttpImpls
  /\ last.op = "settle" /\ last.method = "get"
  /\ last.resp = Resp(200, JsonHeaders, BadBody)
  /\ last.status = "rejected" /\ last.error = "SyntaxError"

\* C10: a direct-HTTP post, put or delete resolves with exactly the
\* descriptor the capability produced: the body stays the raw string under
\* a content-type that contains "application/json", and a malformed JSON
\* body does not make the call reject.
C10_WritesAreNotDeserialized ==
  (impl \in HttpImpls /\ last.op \in {"settle", "abort"}
     /\ last.method \in {"post", "put", "delete"} /\ last.outcome = "response") =>
    /\ last.status = "resolved"
    /\ last.value = last.resp
    /\ last.value.body.t = "string"

C10_Witness ==
  /\ impl \in HttpImpls
  /\ last.op = "settle" /\ last.method = "post"
  /\ last.resp = Resp(200, JsonHeaders, BadBody)
  /\ last.status = "resolved" /\ last.value = last.resp

\* the fields a constructor call that returns leaves on the instance
ConstructedFields ==
  {New(impl, arg).instance.fields : arg \in {a \in CtorArgs : New(impl, a).threw = ""}}
\* the record of call r as it was when the call returned
Issued(r) ==
  [r EXCEPT !.op = "call", !.abort = "", !.status = "pending", !.error = "",
            !.outcome = "", !.resp = NoResp, !.value = NoResp]
\* call r has the outcome it has alone on the instance
OwnOutcome(r) ==
  /\ \E t \in 0..clock :
        /\ Issued(r) = Op("call", r.method, r.url, r.payload,
                          Call(impl, r.method, r.url, r.payload, t))
        /\ \A t0 \in 0..clock :
             LET reused == ParamsAfterGet(impl, r.method, r.payload, t0)
             IN reused = r.payload
                \/ Call(impl, r.method, r.url, reused, t).reqs = r.reqs
  /\ (r.outcome = "response" /\ r.then # "jsonp") =>
        [r EXCEPT !.op = "settle", !.abort = ""]
          = Settled(Issued(r), r.resp, Then(r.then, r.resp))
  /\ (r.outcome = "response" /\ r.then = "jsonp") =>
        /\ r.status = "resolved"
        /\ r.value.statusCode = 200 /\ r.value.body \in JsonpPayloads
  /\ r.outcome = "failure" => (r.status = "rejected" /\ r.error = "TransportError")
\* the instance holds what its constructor set, and every call seen has its
\* own outcome
C11_CallsAreIndependent ==
  instance.state = "built" =>
    /\ instance.fields \in ConstructedFields
    /\ \A r \in CallsSeen : r.status = "threw" \/ OwnOutcome(r)

\* C11: after any sequence and interleaving of verb calls on one transport
\* instance (calls that resolve, reject or throw) the instance holds what
\* its constructor set and nothing else: no step after construction writes a
\* field of it. The outcome of a call is the outcome that call has alone:
\* its request and returned value are those of the same call at some time
\* on the clock, also when the caller hands it the payload object an
\* earlier call was given, and its settlement is the chained callback
\* applied to its own response.
C11_InstanceIsNeverWritten ==
  /\ []C11_CallsAreIndependent
  /\ [][instance.state = "built" => instance' = instance]_vars

C11_Witness ==
  /\ instance.fields = Obj(<<Entry("_urlRoot", Str(UrlRoot))>>)
  /\ last.op = "settle" /\ last.status = "rejected"
  /\ \E r \in BagToSet(pending) : r.method = "get" /\ r.payload = Params

\* the callback-parameter name in the query of a JSONP request: what
\* follows the last "callback=" of its url
CallbackName(r) ==
  LET u == r.reqs[1].url
      at == {j \in 1..Len(u) : IsLiteralAt(u, j, "callback=")}
      from == (CHOOSE j \in at : \A k \in at : k <= j) + Len("callback=")
  IN IF at = {} THEN "" ELSE SubSeq(u, from, Len(u))

\* C12 (as claimed): every JSONP get call appends a unique callback name to
\* its query: any two JSONP get calls, two in flight at the same time
\* included, carry different callback names.
C12_CallbackNamesAreUnique ==
  impl = "Jsonp" =>
    \A r \in CallsSeen :
      r.status # "threw" =>
        /\ CallbackName(r) # ""
        /\ r \in BagToSet(pending) => CopiesIn(r, pending) = 1
        /\ \A q \in CallsSeen \ {r} :
             q.status # "threw" => CallbackName(q) # CallbackName(r)

\* C13 (as claimed): deserialize is idempotent: applied a second time to a
\* descriptor it has already deserialized (content-type contains
\* "application/json", body now a structured value and no longer a string)
\* it does not throw and leaves body unchanged.
C13_DeserializeIsIdempotent ==
  (last.op = "deserialize again" /\ HasJsonType(last.resp)
     /\ last.resp.body.t # "string") =>
    /\ last.status = "returned"
    /\ last.error = ""
    /\ last.value.body = last.resp.body

====
